---- MODULE Spec2Model ----
(***************************************************************************)
(* Model of src/main.py: the three MCP tools getSubgraphSchema,            *)
(* querySubgraph and searchSubgraphs of the TheGraph MCP server, the       *)
(* module-level schema cache they share, and the API key redaction.        *)
(*                                                                         *)
(* Python values are tagged records: [ty |-> "null"], [ty |-> "str", v],   *)
(* [ty |-> "num", v], [ty |-> "float", v], [ty |-> "list", v] and          *)
(* [ty |-> "dict", v] where the v of a dict is a function from keys.       *)
(* A Python string is a sequence of tokens (characters where the           *)
(* algorithm works on characters).                                         *)
(***************************************************************************)
EXTENDS Integers, Sequences, FiniteSets, TLC

VARIABLES API_KEY, _schema_cache, pc, frame, httpCalls, ret

vars == <<API_KEY, _schema_cache, pc, frame, httpCalls, ret>>

(***************************************************************************)
(* Bounds of the model.                                                    *)
(***************************************************************************)
MaxTasks == 2
MaxItems == 4
MaxMsgLen == 3
MaxKeyLen == 2

(***************************************************************************)
(* Python values.                                                          *)
(***************************************************************************)
None == [ty |-> "null"]
Str(s) == [ty |-> "str", v |-> s]
Num(n) == [ty |-> "num", v |-> n]
FloatInf == [ty |-> "float", v |-> "inf"]
List(s) == [ty |-> "list", v |-> s]
Dict(f) == [ty |-> "dict", v |-> f]
EmptyDict == Dict(<< >>)

IsDict(x) == x.ty = "dict"
IsList(x) == x.ty = "list"
IsStr(x) == x.ty = "str"

\* Python truthiness: bool(x)
Truthy(x) ==
  CASE x.ty = "null" -> FALSE
    [] x.ty = "str" -> x.v # << >>
    [] x.ty = "num" -> x.v # 0
    [] x.ty = "float" -> TRUE
    [] x.ty = "list" -> x.v # << >>
    [] x.ty = "dict" -> DOMAIN x.v # {}

\* dict.get(k) and dict.get(k, default), for a dict d
GetOr(d, k, default) == IF k \in DOMAIN d.v THEN d.v[k] ELSE default
Get(d, k) == GetOr(d, k, None)

\* x or y
Or(x, y) == IF Truthy(x) THEN x ELSE y

\* str(x) inside an f-string
Format(x) ==
  CASE x.ty = "str" -> x.v
    [] x.ty = "null" -> <<"None">>
    [] OTHER -> <<"repr", x>>

\* json.dumps(x): a non-empty string that determines x
Dumps(x) == [ty |-> "str", v |-> <<"json">>, arg |-> x]

(***************************************************************************)
(* String operations on sequences.                                         *)
(***************************************************************************)
StartsWith(s, p) == Len(p) <= Len(s) /\ SubSeq(s, 1, Len(p)) = p

\* p in s, for strings
Contains(s, p) ==
  \E i \in 1..(Len(s) - Len(p) + 1) : SubSeq(s, i, i + Len(p) - 1) = p

RECURSIVE Replace(_, _, _)
\* s.replace(old, new) for a non-empty old: leftmost non-overlapping matches
Replace(s, old, new) ==
  IF Len(s) < Len(old) THEN s
  ELSE IF SubSeq(s, 1, Len(old)) = old
       THEN new \o Replace(SubSeq(s, Len(old) + 1, Len(s)), old, new)
       ELSE <<Head(s)>> \o Replace(Tail(s), old, new)

REDACTED == <<"[", "R", "E", "D", "A", "C", "T", "E", "D", "]">>

\* A mutant: redacts only the first occurrence of the key.
SanitizeFirstOnly(key, msg) ==
  IF Truthy(key) /\ Contains(msg, key.v)
  THEN LET i == CHOOSE j \in 1..Len(msg) :
                  /\ j + Len(key.v) - 1 <= Len(msg)
                  /\ SubSeq(msg, j, j + Len(key.v) - 1) = key.v
                  /\ \A h \in 1..(j - 1) :
                       SubSeq(msg, h, h + Len(key.v) - 1) # key.v
       IN SubSeq(msg, 1, i - 1) \o REDACTED
            \o SubSeq(msg, i + Len(key.v), Len(msg))
  ELSE msg

\* _sanitize_error(e), with the module-level API_KEY as a parameter and
\* msg = str(e)
_sanitize_error(key, msg) ==
  IF Truthy(key) /\ Contains(msg, key.v)
  THEN Replace(msg, key.v, REDACTED)
  ELSE msg

(***************************************************************************)
(* Evaluation of a block of Python code: it returns a value or raises.     *)
(***************************************************************************)
Return(x) == [raised |-> FALSE, value |-> x]
Raise(exc, msg) == [raised |-> TRUE, exc |-> exc, msg |-> msg]

\* x[k] for a string key k: the value for a dict that has k, else it raises
HasKey(x, k) == IsDict(x) /\ k \in DOMAIN x.v
SubscriptError(x, k) ==
  IF IsDict(x) THEN Raise("KeyError", <<"'", k, "'">>)
  ELSE Raise("TypeError", <<"not subscriptable with a str">>)

\* x.get(...) on something that is no dict
NoGet == Raise("AttributeError", <<"object has no attribute 'get'">>)

(***************************************************************************)
(* json_to_graphql_schema                                                  *)
(***************************************************************************)
Whitespace == {"\n", "\n\n", "  ", " "}

RECURSIVE RStrip(_)
RStrip(s) ==
  IF s # << >> /\ s[Len(s)] \in Whitespace
  THEN RStrip(SubSeq(s, 1, Len(s) - 1)) ELSE s

RECURSIVE LStrip(_)
LStrip(s) == IF s # << >> /\ Head(s) \in Whitespace THEN LStrip(Tail(s)) ELSE s

\* str.strip()
Strip(s) == LStrip(RStrip(s))

\* Lines 46-49: the displayed type of a field whose type has name and kind
TypeName(field_type, kind) ==
  IF kind = Str(<<"NON_NULL">>)
  THEN Format(field_type.v["ofType"].v["name"]) \o <<"!">>
  ELSE IF kind = Str(<<"LIST">>)
  THEN <<"[">> \o Format(field_type.v["ofType"].v["name"]) \o <<"]">>
  ELSE Format(field_type.v["name"])

\* Lines 45-50 for a field f with its type
TypedFieldLine(f, field_type) ==
  IF ~HasKey(field_type, "name") THEN SubscriptError(field_type, "name")
  ELSE IF ~HasKey(field_type, "kind") THEN SubscriptError(field_type, "kind")
  ELSE IF /\ field_type.v["kind"] \in {Str(<<"NON_NULL">>), Str(<<"LIST">>)}
          /\ ~HasKey(field_type, "ofType")
  THEN SubscriptError(field_type, "ofType")
  ELSE IF /\ field_type.v["kind"] \in {Str(<<"NON_NULL">>), Str(<<"LIST">>)}
          /\ ~HasKey(field_type.v["ofType"], "name")
  THEN SubscriptError(field_type.v["ofType"], "name")
  ELSE IF ~HasKey(f, "name") THEN SubscriptError(f, "name")
  ELSE Return(<<"  ">> \o Format(f.v["name"]) \o <<": ">>
                \o TypeName(field_type, field_type.v["kind"]) \o <<"\n">>)

\* One field line "  name: type\n" (lines 44-50)
FieldLine(f) ==
  IF ~HasKey(f, "type") THEN SubscriptError(f, "type")
  ELSE TypedFieldLine(f, f.v["type"])

\* The text of two pieces, or the exception of the first that raised
Then(one, rest) ==
  IF one.raised THEN one
  ELSE IF rest.raised THEN rest
  ELSE Return(one.value \o rest.value)

RECURSIVE FieldLines(_, _)
\* for f in t["fields"], from the i-th on
FieldLines(fs, i) ==
  IF i > Len(fs) THEN Return(<< >>)
  ELSE Then(FieldLine(fs[i]), FieldLines(fs, i + 1))

\* Lines 42-50: the field lines of a type
Fields(fields) ==
  IF ~Truthy(fields) THEN Return(<< >>)
  ELSE IF IsList(fields) THEN FieldLines(fields.v, 1)
  ELSE Raise("TypeError", <<"fields is no list of dicts">>)

\* Lines 41-51: the block of a type that is kept
Block(name, lines) ==
  IF lines.raised THEN lines
  ELSE Return(<<"type ">> \o name \o <<" {", "\n">> \o lines.value
                \o <<"}", "\n\n">>)

\* The text one type adds to schema_text (lines 40-51)
TypeBlock(t) ==
  IF ~HasKey(t, "kind") THEN SubscriptError(t, "kind")
  ELSE IF t.v["kind"] # Str(<<"OBJECT">>) THEN Return(<< >>)
  ELSE IF ~HasKey(t, "name") THEN SubscriptError(t, "name")
  ELSE IF ~IsStr(t.v["name"])
  THEN Raise("AttributeError", <<"object has no attribute 'startswith'">>)
  ELSE IF StartsWith(t.v["name"].v, <<"__">>) THEN Return(<< >>)
  ELSE IF ~HasKey(t, "fields") THEN SubscriptError(t, "fields")
  ELSE Block(t.v["name"].v, Fields(t.v["fields"]))

RECURSIVE TypeBlocks(_, _)
\* for t in types, from the i-th on
TypeBlocks(types, i) ==
  IF i > Len(types) THEN Return(<< >>)
  ELSE Then(TypeBlock(types[i]), TypeBlocks(types, i + 1))

\* Line 53: schema_text.strip()
Stripped(blocks) ==
  IF blocks.raised THEN blocks ELSE Return(Str(Strip(blocks.value)))

json_to_graphql_schema(schema_json) ==
  IF ~HasKey(schema_json, "types") THEN SubscriptError(schema_json, "types")
  ELSE IF IsList(schema_json.v["types"])
  THEN Stripped(TypeBlocks(schema_json.v["types"].v, 1))
  ELSE IF /\ schema_json.v["types"].ty \in {"str", "dict"}
          /\ ~Truthy(schema_json.v["types"])
  THEN Return(Str(<< >>))
  ELSE Raise("TypeError", <<"types is no list of dicts">>)

(***************************************************************************)
(* The literal strings of the tools.  The three prefixes of a caught       *)
(* exception are spelled in characters, as the redacted text follows them. *)
(***************************************************************************)
ApiKeyRequired ==
  Str(<<"API key is required. Set THEGRAPH_API_KEY in your .env file.">>)
ErrorFetchingSchema ==
  <<"E", "r", "r", "o", "r", " ", "f", "e", "t", "c", "h", "i", "n", "g", " ", "s", "c", "h", "e", "m", "a", ":", " ">>
ErrorExecutingQuery ==
  <<"E", "r", "r", "o", "r", " ", "e", "x", "e", "c", "u", "t", "i", "n", "g", " ", "q", "u", "e", "r", "y", ":", " ">>
ErrorSearchingSubgraphs ==
  <<"E", "r", "r", "o", "r", " ", "s", "e", "a", "r", "c", "h", "i", "n", "g", " ", "s", "u", "b", "g", "r", "a", "p", "h", "s", ":", " ">>
GraphQLErrorPrefix == <<"GraphQL error: ">>
UnknownError == Str(<<"Unknown error">>)

(***************************************************************************)
(* The schema cache: a dict from subgraph id to {"text": .., "json": ..}.  *)
(***************************************************************************)
\* _schema_cache.get(k)
CacheGet(cache, k) == IF k \in DOMAIN cache THEN cache[k] ELSE None

\* A mutant: the assignment rebinds the whole cache to the one entry.
CachePutClobber(cache, k, entry) == [x \in {k} |-> entry]

\* _schema_cache[k] = entry
CachePut(cache, k, entry) ==
  [x \in DOMAIN cache \cup {k} |-> IF x = k THEN entry ELSE cache[x]]

RECURSIVE ApplyWrites(_, _)
\* The assignments of one invocation, in program order
ApplyWrites(cache, writes) ==
  IF writes = << >> THEN cache
  ELSE ApplyWrites(CachePut(cache, Head(writes)[1], Head(writes)[2]),
                   Tail(writes))

\* A mutant: only the text form is served from the cache.
CacheLookupTextOnly(cache, subgraphId, asText) ==
  LET cached == CacheGet(cache, subgraphId) IN
  IF Truthy(cached) /\ asText /\ Truthy(Get(cached, "text"))
  THEN cached.v["text"] ELSE None

\* Lines 67-72: the cached form getSubgraphSchema returns, None on a miss
CacheLookup(cache, subgraphId, asText) ==
  LET cached == CacheGet(cache, subgraphId) IN
  IF Truthy(cached) /\ asText /\ Truthy(Get(cached, "text"))
  THEN cached.v["text"]
  ELSE IF Truthy(cached) /\ ~asText /\ Truthy(Get(cached, "json"))
  THEN cached.v["json"]
  ELSE None

\* A mutant: an empty key counts as configured.
KeyMissingNoneOnly(key) == key = None

\* not API_KEY
KeyMissing(key) == ~Truthy(key)

(***************************************************************************)
(* What a try block evaluates to: Return or Raise, with the cache          *)
(* assignments it made before it ended.                                    *)
(***************************************************************************)
With(r, writes) == [writes |-> writes] @@ r

\* A mutant: the errors check is skipped when the body also carries data.
GraphQLErrorsUnlessData(data) ==
  Truthy(Get(data, "errors")) /\ ~Truthy(Get(data, "data"))

\* if data.get("errors"), for a dict data
GraphQLErrors(data) == Truthy(Get(data, "errors"))

\* errors[0].get('message', 'Unknown error') in the f-string
FirstErrorString(errors) ==
  CASE errors.ty = "list" ->
         IF IsDict(errors.v[1])
         THEN Return(Str(GraphQLErrorPrefix
                \o Format(GetOr(errors.v[1], "message", UnknownError))))
         ELSE NoGet
    [] errors.ty = "str" -> NoGet
    [] errors.ty = "dict" -> Raise("KeyError", <<"0">>)
    [] OTHER -> Raise("TypeError", <<"object is not subscriptable">>)

\* f"GraphQL error: {data['errors'][0].get('message', 'Unknown error')}"
GraphQLErrorString(data) == FirstErrorString(data.v["errors"])

\* A mutant: only the httpx.HTTPError clause is there.
CaughtHTTPErrorOnly(prefix, key, r) ==
  IF r.raised /\ r.exc \in {"ConnectError", "ReadTimeout", "HTTPStatusError"}
  THEN With(Return(Str(prefix \o _sanitize_error(key, r.msg))), r.writes)
  ELSE r

\* except httpx.HTTPError / except Exception: both return the prefixed,
\* sanitized text of the exception
Caught(prefix, key, r) ==
  IF r.raised
  THEN With(Return(Str(prefix \o _sanitize_error(key, r.msg))), r.writes)
  ELSE r

(***************************************************************************)
(* getSubgraphSchema, lines 100-123, from the response of client.post:     *)
(* resp is Raise(..) for a transport failure, a bad status or an           *)
(* undecodable body, and Return(body) for a decoded body.                  *)
(***************************************************************************)
\* "__schema" in data
HasSchema(data) ==
  CASE data.ty = "dict" -> Return("__schema" \in DOMAIN data.v)
    [] data.ty = "list" ->
         Return(\E i \in DOMAIN data.v : data.v[i] = Str(<<"__schema">>))
    [] data.ty = "str" -> Return(Contains(data.v, <<"__schema">>))
    [] OTHER -> Raise("TypeError", <<"argument is not iterable">>)

\* A mutant: the json form is left out of the entry.
SchemaEntryTextOnly(text_schema, json_schema) ==
  Dict([text |-> text_schema, json |-> None])

\* Line 115: {"text": text_schema, "json": json_schema}
SchemaEntry(text_schema, json_schema) ==
  Dict([text |-> text_schema, json |-> json_schema])

\* Lines 112-117, with the text form the normalizer gave
StoreAndReturn(subgraphId, asText, schema, text) ==
  IF text.raised THEN With(text, << >>)
  ELSE With(Return(IF asText THEN text.value ELSE Dumps(schema)),
            <<<<subgraphId, SchemaEntry(text.value, Dumps(schema))>>>>)

FailedToFetch(subgraphId) ==
  With(Return(Str(<<"Failed to fetch schema for ">> \o Format(subgraphId))),
       << >>)

\* Lines 109-119, with the value of: "__schema" in schema_data["data"]
SchemaOrFailed(subgraphId, asText, data, has) ==
  IF has.raised THEN With(has, << >>)
  ELSE IF ~has.value THEN FailedToFetch(subgraphId)
  ELSE IF ~IsDict(data)
  THEN With(Raise("TypeError", <<"indices must be integers">>), << >>)
  ELSE StoreAndReturn(subgraphId, asText, data.v["__schema"],
                      json_to_graphql_schema(data.v["__schema"]))

\* Lines 105-119, for the decoded body
SchemaFromBody(subgraphId, asText, schema_data) ==
  IF ~IsDict(schema_data) THEN With(NoGet, << >>)
  ELSE IF GraphQLErrors(schema_data)
  THEN With(GraphQLErrorString(schema_data), << >>)
  ELSE IF "data" \notin DOMAIN schema_data.v THEN FailedToFetch(subgraphId)
  ELSE SchemaOrFailed(subgraphId, asText, schema_data.v["data"],
                      HasSchema(schema_data.v["data"]))

getSubgraphSchemaTry(subgraphId, asText, resp) ==
  IF resp.raised THEN With(resp, << >>)
  ELSE SchemaFromBody(subgraphId, asText, resp.value)

(***************************************************************************)
(* querySubgraph, lines 141-154                                            *)
(***************************************************************************)
QueryFromBody(data) ==
  IF ~IsDict(data) THEN With(NoGet, << >>)
  ELSE IF GraphQLErrors(data) THEN With(GraphQLErrorString(data), << >>)
  ELSE With(Return(Dumps(data)), << >>)

querySubgraphTry(resp) ==
  IF resp.raised THEN With(resp, << >>)
  ELSE QueryFromBody(resp.value)

(***************************************************************************)
(* int(x), as far as the sort key of searchSubgraphs needs it.             *)
(***************************************************************************)
Digits == {"0", "1", "2", "3", "4", "5", "6", "7", "8", "9"}

DigitValue(c) ==
  CASE c = "0" -> 0 [] c = "1" -> 1 [] c = "2" -> 2 [] c = "3" -> 3
    [] c = "4" -> 4 [] c = "5" -> 5 [] c = "6" -> 6 [] c = "7" -> 7
    [] c = "8" -> 8 [] c = "9" -> 9

\* Digits with single underscores between them, as int() accepts
IsIntLiteral(s) ==
  /\ s # << >>
  /\ \A i \in DOMAIN s : s[i] \in Digits \cup {"_"}
  /\ s[1] \in Digits /\ s[Len(s)] \in Digits
  /\ \A i \in 1..(Len(s) - 1) : ~(s[i] = "_" /\ s[i + 1] = "_")

RECURSIVE LiteralValue(_, _)
LiteralValue(s, acc) ==
  IF s = << >> THEN acc
  ELSE IF Head(s) = "_" THEN LiteralValue(Tail(s), acc)
  ELSE LiteralValue(Tail(s), 10 * acc + DigitValue(Head(s)))

\* The value of a literal with its sign
Signed(t, signed, body) ==
  IF IsIntLiteral(body)
  THEN Return(IF signed /\ Head(t) = "-"
              THEN 0 - LiteralValue(body, 0) ELSE LiteralValue(body, 0))
  ELSE Raise("ValueError", <<"invalid literal for int() with base 10">>)

\* int(t) for a str t without surrounding whitespace
ParseStripped(t) ==
  IF t # << >> /\ Head(t) \in {"-", "+"}
  THEN Signed(t, TRUE, Tail(t)) ELSE Signed(t, FALSE, t)

\* int(s) for a str s
ParseInt(s) == ParseStripped(Strip(s))

FloatNaN == [ty |-> "float", v |-> "nan"]

\* int(x)
IntOf(x) ==
  CASE x.ty = "num" -> Return(x.v)
    [] x.ty = "str" -> ParseInt(x.v)
    [] x = FloatInf ->
         Raise("OverflowError", <<"cannot convert float infinity to integer">>)
    [] x = FloatNaN ->
         Raise("ValueError", <<"cannot convert float NaN to integer">>)
    [] OTHER ->
         Raise("TypeError", <<"int() argument must be a string or a number">>)

\* Lines 260-263: ValueError and TypeError give 0, any other exception of
\* int() propagates
ExceptValueOrType(r) ==
  IF r.raised /\ r.exc \in {"ValueError", "TypeError"} THEN Return(0) ELSE r

\* _safe_signal(x), lines 259-263
_safe_signal(x) ==
  ExceptValueOrType(IntOf(Or(Get(x, "signalledTokens"), Num(0))))

\* The key of an entry whose key does not raise
Key(x) == _safe_signal(x).value

RECURSIVE InsertDesc(_, _)
\* e goes behind every entry whose key is at least its own
InsertDesc(sorted, e) ==
  IF sorted = << >> THEN <<e>>
  ELSE IF Key(Head(sorted)) >= Key(e)
       THEN <<Head(sorted)>> \o InsertDesc(Tail(sorted), e)
       ELSE <<e>> \o sorted

RECURSIVE SortDesc(_, _)
\* results.sort(key=_safe_signal, reverse=True): stable, descending
SortDesc(results, sorted) ==
  IF results = << >> THEN sorted
  ELSE SortDesc(Tail(results), InsertDesc(sorted, Head(results)))

Raises(x) == _safe_signal(x).raised

\* The first exception a key raises, in list order, if any
FirstKeyError(results) ==
  IF \E i \in DOMAIN results : Raises(results[i])
  THEN _safe_signal(results[CHOOSE i \in DOMAIN results :
                              /\ Raises(results[i])
                              /\ \A j \in 1..(i - 1) : ~Raises(results[j])])
  ELSE Return(0)

(***************************************************************************)
(* searchSubgraphs, lines 198-271                                          *)
(***************************************************************************)
DescLimit == 150

Size(x) == IF x.ty = "dict" THEN Cardinality(DOMAIN x.v) ELSE Len(x.v)

\* desc[:150] + "..." if len(desc) > 150 else desc
Truncate(desc) ==
  CASE desc.ty = "str" ->
         Return(IF Len(desc.v) > DescLimit
                THEN Str(SubSeq(desc.v, 1, DescLimit) \o <<".", ".", ".">>)
                ELSE desc)
    [] desc.ty \in {"list", "dict"} ->
         IF Size(desc) > DescLimit
         THEN Raise("TypeError", <<"cannot slice or concatenate">>)
         ELSE Return(desc)
    [] OTHER -> Raise("TypeError", <<"object has no len()">>)

\* (x.get(k) or {}) for a dict x
GetOrEmpty(x, k) == Or(Get(x, k), EmptyDict)

Skip == [raised |-> FALSE, skip |-> TRUE]

\* Lines 249-253: the cache assignment, if the manifest carries a schema
\* text, and the entry to append
CacheAndAppend(subgraph_id, entry, schema) ==
  IF Truthy(schema) /\ subgraph_id.ty \in {"list", "dict"}
  THEN Raise("TypeError", <<"unhashable type">>)
  ELSE [raised |-> FALSE, skip |-> FALSE, entry |-> entry,
        write |-> IF Truthy(schema)
                  THEN <<<<subgraph_id,
                           Dict([text |-> schema, json |-> None])>>>>
                  ELSE << >>]

\* Line 249: (manifest.get("schema") or {}).get("schema")
WithSchemaOf(subgraph_id, entry, schemaHolder) ==
  IF ~IsDict(schemaHolder) THEN NoGet
  ELSE CacheAndAppend(subgraph_id, entry, Get(schemaHolder, "schema"))

\* Lines 243-246: the entry with its description, if there is one
Described(base, chosen, description) ==
  IF description.raised THEN description
  ELSE Return(IF Truthy(chosen)
              THEN Dict([subgraphId |-> base.subgraphId,
                         displayName |-> base.displayName,
                         network |-> base.network,
                         signalledTokens |-> base.signalledTokens,
                         deploymentIpfsHash |-> base.deploymentIpfsHash,
                         description |-> description.value])
              ELSE Dict(base))

\* if desc: .. elif version_desc: ..
Describe(base, chosen) ==
  Described(base, chosen,
            IF Truthy(chosen) THEN Truncate(chosen) ELSE Return(None))

\* Lines 241-253, with the entry of lines 233-239
EntryOf(manifest, base, entry) ==
  IF entry.raised THEN entry
  ELSE WithSchemaOf(base.subgraphId, entry.value,
                    GetOrEmpty(manifest, "schema"))

\* Lines 241-242
WithDescription(meta, manifest, base, metadata) ==
  IF ~IsDict(metadata) THEN NoGet
  ELSE EntryOf(manifest, base,
               Describe(base, Or(Get(meta, "description"),
                                 Get(metadata, "description"))))

\* Lines 231-239
WithManifest(meta, subgraph, version, deployment, manifest) ==
  IF ~IsDict(manifest) THEN NoGet
  ELSE WithDescription(meta, manifest,
         [subgraphId |-> Get(subgraph, "id"),
          displayName |-> Get(meta, "displayName"),
          network |-> GetOr(manifest, "network", Str(<<"unknown">>)),
          signalledTokens |->
            GetOr(subgraph, "signalledTokens", Str(<<"0">>)),
          deploymentIpfsHash |-> Get(deployment, "ipfsHash")],
         GetOrEmpty(version, "metadata"))

\* Lines 228-230
WithDeployment(meta, subgraph, version, deployment) ==
  IF ~Truthy(deployment) THEN Skip
  ELSE IF ~IsDict(deployment) THEN NoGet
  ELSE WithManifest(meta, subgraph, version, deployment,
                    GetOrEmpty(deployment, "manifest"))

\* Lines 226-227
WithVersion(meta, subgraph, version) ==
  IF ~IsDict(version) THEN NoGet
  ELSE WithDeployment(meta, subgraph, version,
                      Get(version, "subgraphDeployment"))

\* Lines 218-226
WithSubgraph(meta, subgraph) ==
  IF ~Truthy(subgraph) THEN Skip
  ELSE IF ~IsDict(subgraph) THEN NoGet
  ELSE IF ~Truthy(Get(subgraph, "currentVersion")) THEN Skip
  ELSE IF ~Truthy(Get(subgraph, "id")) THEN Skip
  ELSE WithVersion(meta, subgraph, Get(subgraph, "currentVersion"))

\* Lines 217-253 for one item: it raises, is skipped, or gives an entry
\* and at most one cache assignment
ProjectItem(meta) ==
  IF ~IsDict(meta) THEN NoGet
  ELSE WithSubgraph(meta, Get(meta, "subgraph"))

RECURSIVE ProjectAll(_, _, _)

\* One turn of the loop, with what lines 217-253 gave for the first item
ProjectStep(items, results, writes, one) ==
  IF one.raised THEN With(one, writes)
  ELSE IF one.skip THEN ProjectAll(Tail(items), results, writes)
  ELSE ProjectAll(Tail(items), Append(results, one.entry),
                  writes \o one.write)

\* for meta in search_results: the entries and the cache assignments so
\* far, until the list ends or an item raises
ProjectAll(items, results, writes) ==
  IF items = << >>
  THEN [raised |-> FALSE, results |-> results, writes |-> writes]
  ELSE ProjectStep(items, results, writes, ProjectItem(Head(items)))

NoSubgraphsFound(searchQuery) ==
  Str(<<"No subgraphs found matching '">> \o Format(searchQuery) \o <<"'">>)

NoneDeployed(searchQuery) ==
  Str(<<"Subgraphs were found matching '">> \o Format(searchQuery)
        \o <<"', but none have an active deployment. Try a broader search term.">>)

\* Lines 265-267, with the first exception of a sort key, if any
SortAndDump(results, writes, bad) ==
  IF bad.raised THEN With(bad, writes)
  ELSE With(Return(Dumps(List(SortDesc(results, << >>)))), writes)

\* Lines 255-267, with what the loop gave
Projected(searchQuery, all) ==
  IF all.raised THEN all
  ELSE IF all.results = << >>
  THEN With(Return(NoneDeployed(searchQuery)), all.writes)
  ELSE SortAndDump(all.results, all.writes, FirstKeyError(all.results))

\* Lines 212-267
SearchResults(searchQuery, search_results) ==
  IF ~Truthy(search_results)
  THEN With(Return(NoSubgraphsFound(searchQuery)), << >>)
  ELSE IF ~IsList(search_results)
  THEN With(IF search_results.ty \in {"str", "dict"} THEN NoGet
            ELSE Raise("TypeError", <<"object is not iterable">>), << >>)
  ELSE Projected(searchQuery, ProjectAll(search_results.v, << >>, << >>))

\* Line 211: (data.get("data") or {}).get("subgraphMetadataSearch")
SearchInData(searchQuery, holder) ==
  IF ~IsDict(holder) THEN With(NoGet, << >>)
  ELSE SearchResults(searchQuery, Get(holder, "subgraphMetadataSearch"))

\* Lines 205-267, for the decoded body
SearchFromBody(searchQuery, data) ==
  IF ~IsDict(data) THEN With(NoGet, << >>)
  ELSE IF GraphQLErrors(data) THEN With(GraphQLErrorString(data), << >>)
  ELSE SearchInData(searchQuery, GetOrEmpty(data, "data"))

searchSubgraphsTry(searchQuery, resp) ==
  IF resp.raised THEN With(resp, << >>)
  ELSE SearchFromBody(searchQuery, resp.value)

(***************************************************************************)
(* The server: the tools run as coroutines of one event loop.  An          *)
(* invocation runs without interruption up to its await of client.post     *)
(* (call) and from the response to its return (resume).                    *)
(*   pc[t]        "idle" or "awaiting" (suspended in client.post)          *)
(*   frame[t]     the arguments of the suspended invocation                *)
(*   httpCalls[t] the outbound calls the running invocation has issued     *)
(*   ret          the invocation that has just returned, until the host    *)
(*                has sent its result to the caller (deliver): its         *)
(*                arguments, the response it got, what it returned or      *)
(*                raised, the cache assignments it made, and for           *)
(*                getSubgraphSchema the cache entry of its subgraphId at   *)
(*                the call and at the return                               *)
(***************************************************************************)
Tasks == 1..MaxTasks

SubgraphIds == {Str(<<"s1">>), Str(<<"s2">>)}

NoFrame == [op |-> "none"]
NoRet == [op |-> "none"]
NoResponse == [raised |-> FALSE, none |-> TRUE]

\* getSubgraphSchema returns without an outbound call
SchemaReturnsAtOnce(subgraphId, asText, atCall, value) ==
  /\ ret' = [op |-> "getSubgraphSchema", subgraphId |-> subgraphId,
             asText |-> asText, resp |-> NoResponse, atCall |-> atCall,
             atReturn |-> atCall, calls |-> 0,
             cacheBefore |-> _schema_cache,
             out |-> With(Return(value), << >>)]
  /\ UNCHANGED <<pc, frame, httpCalls>>

\* Lines 66-101, with the cached form of lines 67-72
SchemaLookedUp(t, subgraphId, asText, atCall, hit) ==
  IF hit # None
  THEN SchemaReturnsAtOnce(subgraphId, asText, atCall, hit)
  ELSE IF KeyMissing(API_KEY)
  THEN SchemaReturnsAtOnce(subgraphId, asText, atCall, ApiKeyRequired)
  ELSE /\ pc' = [pc EXCEPT ![t] = "awaiting"]
       /\ frame' = [frame EXCEPT ![t] =
                      [op |-> "getSubgraphSchema", subgraphId |-> subgraphId,
                       asText |-> asText, atCall |-> atCall]]
       /\ httpCalls' = [httpCalls EXCEPT ![t] = 1]
       /\ UNCHANGED ret

getSubgraphSchema_call(t, subgraphId, asText) ==
  /\ ret = NoRet
  /\ pc[t] = "idle"
  /\ SchemaLookedUp(t, subgraphId, asText,
                    CacheGet(_schema_cache, subgraphId),
                    CacheLookup(_schema_cache, subgraphId, asText))
  /\ UNCHANGED <<API_KEY, _schema_cache>>

\* The return of a resumed invocation t with the outcome of its try block
Returns(t, f, resp, out) ==
  /\ _schema_cache' = ApplyWrites(_schema_cache, out.writes)
  /\ ret' = [x \in {"resp", "calls", "cacheBefore", "out", "atReturn"}
               |-> CASE x = "resp" -> resp
                     [] x = "calls" -> httpCalls[t]
                     [] x = "cacheBefore" -> _schema_cache
                     [] x = "out" -> out
                     [] x = "atReturn" ->
                          IF f.op = "getSubgraphSchema"
                          THEN CacheGet(_schema_cache', f.subgraphId)
                          ELSE None] @@ f
  /\ pc' = [pc EXCEPT ![t] = "idle"]
  /\ frame' = [frame EXCEPT ![t] = NoFrame]
  /\ httpCalls' = [httpCalls EXCEPT ![t] = 0]
  /\ UNCHANGED API_KEY

getSubgraphSchema_resume(t, resp) ==
  /\ ret = NoRet
  /\ pc[t] = "awaiting"
  /\ frame[t].op = "getSubgraphSchema"
  /\ Returns(t, frame[t], resp,
             Caught(ErrorFetchingSchema, API_KEY,
                    getSubgraphSchemaTry(frame[t].subgraphId,
                                         frame[t].asText, resp)))

\* A tool other than getSubgraphSchema finds no key configured
NoKey(f) ==
  /\ ret' = [resp |-> NoResponse, calls |-> 0, atReturn |-> None,
             cacheBefore |-> _schema_cache,
             out |-> With(Return(ApiKeyRequired), << >>)] @@ f
  /\ UNCHANGED <<pc, frame, httpCalls>>

\* The invocation suspends in client.post
Posts(t, f) ==
  /\ pc' = [pc EXCEPT ![t] = "awaiting"]
  /\ frame' = [frame EXCEPT ![t] = f]
  /\ httpCalls' = [httpCalls EXCEPT ![t] = 1]
  /\ UNCHANGED ret

\* Lines 136-142
QueryStarts(t, f) == IF KeyMissing(API_KEY) THEN NoKey(f) ELSE Posts(t, f)

querySubgraph_call(t, subgraphId, query) ==
  /\ ret = NoRet
  /\ pc[t] = "idle"
  /\ QueryStarts(t, [op |-> "querySubgraph", subgraphId |-> subgraphId,
                     query |-> query])
  /\ UNCHANGED <<API_KEY, _schema_cache>>

querySubgraph_resume(t, resp) ==
  /\ ret = NoRet
  /\ pc[t] = "awaiting"
  /\ frame[t].op = "querySubgraph"
  /\ Returns(t, frame[t], resp,
             Caught(ErrorExecutingQuery, API_KEY, querySubgraphTry(resp)))

\* Lines 166-203
SearchStarts(t, f) == IF KeyMissing(API_KEY) THEN NoKey(f) ELSE Posts(t, f)

searchSubgraphs_call(t, searchQuery) ==
  /\ ret = NoRet
  /\ pc[t] = "idle"
  /\ SearchStarts(t, [op |-> "searchSubgraphs", searchQuery |-> searchQuery])
  /\ UNCHANGED <<API_KEY, _schema_cache>>

searchSubgraphs_resume(t, resp) ==
  /\ ret = NoRet
  /\ pc[t] = "awaiting"
  /\ frame[t].op = "searchSubgraphs"
  /\ Returns(t, frame[t], resp,
             Caught(ErrorSearchingSubgraphs, API_KEY,
                    searchSubgraphsTry(frame[t].searchQuery, resp)))

\* The host serializes the returned string back to the caller
deliver ==
  /\ ret # NoRet
  /\ ret' = NoRet
  /\ UNCHANGED <<API_KEY, _schema_cache, pc, frame, httpCalls>>

(***************************************************************************)
(* The inputs: what the gateway can answer.                                *)
(***************************************************************************)
SeqsUpTo(S, n) == UNION {[1..k -> S] : k \in 0..n}

Named(name, kind) == Dict([name |-> Str(<<name>>), kind |-> Str(<<kind>>)])

FieldOf(name, type) == Dict([name |-> Str(<<name>>), type |-> type])

Wrapper(kind, inner) ==
  Dict([name |-> None, kind |-> Str(<<kind>>), ofType |-> inner])

\* An OBJECT with a NON_NULL, a LIST and a plain field
TypeA ==
  Dict([name |-> Str(<<"A">>), kind |-> Str(<<"OBJECT">>),
        fields |-> List(<<
          FieldOf("id", Wrapper("NON_NULL", Named("ID", "SCALAR"))),
          FieldOf("posts", Wrapper("LIST", Named("Post", "OBJECT"))),
          FieldOf("name", Dict([name |-> Str(<<"String">>),
                                kind |-> Str(<<"SCALAR">>),
                                ofType |-> None]))>>)])

TypeMeta ==
  Dict([name |-> Str(<<"__", "Meta">>), kind |-> Str(<<"OBJECT">>),
        fields |-> List(<< >>)])

TypeScalar ==
  Dict([name |-> Str(<<"Int">>), kind |-> Str(<<"SCALAR">>),
        fields |-> None])

TypeB ==
  Dict([name |-> Str(<<"B">>), kind |-> Str(<<"OBJECT">>), fields |-> None])

SchemaAB == Dict([types |-> List(<<TypeA, TypeMeta, TypeScalar, TypeB>>)])
SchemaMetaOnly == Dict([types |-> List(<<TypeMeta, TypeScalar>>)])
SchemaNoTypes == EmptyDict

ErrorsWith(first) == List(<<first>>)

\* Decoded bodies of a 200 answer to the introspection query or to a query
QueryBodies ==
  { Dict([data |-> Dict([__schema |-> SchemaAB])]),
    Dict([data |-> Dict([__schema |-> SchemaMetaOnly])]),
    Dict([data |-> Dict([__schema |-> SchemaNoTypes])]),
    Dict([errors |-> List(<< >>),
          data |-> Dict([__schema |-> SchemaAB])]),
    Dict([errors |-> ErrorsWith(Dict([message |-> Str(<<"boom">>)])),
          data |-> Dict([__schema |-> SchemaAB])]),
    Dict([errors |-> ErrorsWith(Dict([path |-> None]))]),
    Dict([data |-> None]),
    Dict([data |-> EmptyDict]),
    EmptyDict,
    List(<< >>) }

\* What client.post, raise_for_status and response.json() raise; the text
\* of a status error quotes the URL, which holds the key
TransportFailures ==
  { Raise("ConnectError", <<"c">>),
    Raise("ReadTimeout", <<"t">>),
    Raise("HTTPStatusError",
          <<"4", "0", "1", " ">> \o Format(API_KEY) \o <<"/">>),
    Raise("JSONDecodeError", <<"j">>) }

QueryResponses == TransportFailures \cup {Return(b) : b \in QueryBodies}

Deployment(hash, manifest) ==
  Dict([ipfsHash |-> Str(<<hash>>), manifest |-> manifest])

ManifestWith(sdl) ==
  Dict([network |-> Str(<<"mainnet">>),
        schema |-> Dict([schema |-> Str(<<sdl>>)])])

\* A deployed subgraph whose manifest carries its schema text
Deployed(name, id, tokens, sdl) ==
  Dict([displayName |-> Str(<<name>>),
        subgraph |-> Dict([id |-> id, signalledTokens |-> tokens,
                           currentVersion |-> Dict([subgraphDeployment |->
                             Deployment("Qm", ManifestWith(sdl))])])])

NoCurrentVersion(name, id) ==
  Dict([displayName |-> Str(<<name>>),
        subgraph |-> Dict([id |-> id, signalledTokens |-> Str(<<"7">>),
                           currentVersion |-> None])])

SearchBody(items) ==
  Dict([data |-> Dict([subgraphMetadataSearch |-> List(items)])])

S1 == Str(<<"s1">>)
S2 == Str(<<"s2">>)

SearchBodies ==
  { SearchBody(<< >>),
    SearchBody(<<Deployed("a", S1, Str(<<"5">>), "sdl1")>>),
    SearchBody(<<Deployed("a", S1, Str(<<"5">>), "sdl1"),
                 Deployed("b", S2, Str(<<"9">>), "sdl2")>>),
    SearchBody(<<Deployed("a", S1, Str(<<"5">>), "sdl1"),
                 Deployed("c", S1, FloatInf, "sdl3")>>),
    SearchBody(<<NoCurrentVersion("d", S2)>>),
    Dict([errors |-> ErrorsWith(Dict([message |-> Str(<<"boom">>)])),
          data |-> Dict([subgraphMetadataSearch |-> List(<<
                     Deployed("a", S1, Str(<<"5">>), "sdl1")>>)])]),
    Dict([data |-> None]),
    List(<< >>) }

SearchResponses == TransportFailures \cup {Return(b) : b \in SearchBodies}

Queries == {Str(<<"{ a }">>)}
SearchQueries == {Str(<<"uni">>)}

(***************************************************************************)
(* The server under every configuration of the key, with concurrent        *)
(* invocations and the answers that decide what the cache holds.           *)
(***************************************************************************)
CoreQueryResponses ==
  { Return(Dict([data |-> Dict([__schema |-> SchemaAB])])),
    Return(Dict([data |-> Dict([__schema |-> SchemaMetaOnly])])),
    Return(Dict([errors |-> ErrorsWith(Dict([message |-> Str(<<"boom">>)])),
                 data |-> Dict([__schema |-> SchemaAB])])),
    Raise("HTTPStatusError",
          <<"4", "0", "1", " ">> \o Format(API_KEY) \o <<"/">>) }

CoreSearchResponses ==
  { Return(SearchBody(<<Deployed("a", S1, Str(<<"5">>), "sdl1")>>)),
    Return(SearchBody(<<Deployed("a", S1, Str(<<"5">>), "sdl1"),
                        Deployed("b", S2, Str(<<"9">>), "sdl2")>>)),
    Return(SearchBody(<<Deployed("a", S1, Str(<<"5">>), "sdl1"),
                        Deployed("c", S1, Str(<<"7">>), "sdl3")>>)),
    Return(SearchBody(<<NoCurrentVersion("d", S2)>>)),
    Raise("ConnectError", <<"c">>) }

Keys == {None, Str(<< >>), Str(<<"k", "1">>)}

Init ==
  /\ API_KEY \in Keys
  /\ _schema_cache = << >>
  /\ pc = [t \in Tasks |-> "idle"]
  /\ frame = [t \in Tasks |-> NoFrame]
  /\ httpCalls = [t \in Tasks |-> 0]
  /\ ret = NoRet

Next ==
  \/ \E t \in Tasks :
       \/ \E id \in SubgraphIds, asText \in BOOLEAN :
            getSubgraphSchema_call(t, id, asText)
       \/ \E resp \in CoreQueryResponses : getSubgraphSchema_resume(t, resp)
       \/ \E id \in SubgraphIds, q \in Queries : querySubgraph_call(t, id, q)
       \/ \E resp \in CoreQueryResponses : querySubgraph_resume(t, resp)
       \/ \E q \in SearchQueries : searchSubgraphs_call(t, q)
       \/ \E resp \in CoreSearchResponses : searchSubgraphs_resume(t, resp)
  \/ deliver

Spec == Init /\ [][Next]_vars

(***************************************************************************)
(* One invocation at a time, under every answer of the gateway.            *)
(***************************************************************************)
IONext ==
  \/ \E id \in SubgraphIds, asText \in BOOLEAN :
       getSubgraphSchema_call(1, id, asText)
  \/ \E resp \in QueryResponses : getSubgraphSchema_resume(1, resp)
  \/ \E id \in SubgraphIds, q \in Queries : querySubgraph_call(1, id, q)
  \/ \E resp \in QueryResponses : querySubgraph_resume(1, resp)
  \/ \E q \in SearchQueries : searchSubgraphs_call(1, q)
  \/ \E resp \in SearchResponses : searchSubgraphs_resume(1, resp)
  \/ deliver

IOSpec == Init /\ [][IONext]_vars

(***************************************************************************)
(* searchSubgraphs over the lists of items the gateway can return.         *)
(***************************************************************************)
Version ==
  Dict([subgraphDeployment |->
          Deployment("Qm", Dict([network |-> Str(<<"mainnet">>)]))])

Meta(name, subgraph) == Dict([displayName |-> Str(<<name>>), subgraph |-> subgraph])

Signalled(id, tokens) ==
  Dict([id |-> id, signalledTokens |-> tokens, currentVersion |-> Version])

LongText == [i \in 1..(DescLimit + 1) |-> "x"]

ProjItems ==
  { Deployed("p500", S1, Str(<<"5", "0", "0">>), "sdl1"),
    Meta("pabc", Signalled(S1, Str(<<"a", "b", "c">>))),
    Meta("pabsent", Dict([id |-> S1, currentVersion |-> Version])),
    Meta("p10", Signalled(S2, Str(<<"1", "0">>))),
    Meta("pinf", Signalled(S2, FloatInf)),
    Dict([displayName |-> Str(<<"pnull">>), description |-> Str(LongText),
          subgraph |-> Signalled(S2, None)]),
    Meta("noversion", Dict([id |-> S1, signalledTokens |-> Str(<<"7">>)])),
    Meta("nodeployment",
         Dict([id |-> S1, signalledTokens |-> Str(<<"7">>),
               currentVersion |->
                 Dict([metadata |-> Dict([description |-> Str(<<"d">>)])])])),
    Meta("noid", Dict([signalledTokens |-> Str(<<"7">>),
                       currentVersion |-> Version])),
    Dict([displayName |-> Str(<<"nosubgraph">>), subgraph |-> None]) }

ProjResponses == {Return(SearchBody(items)) : items \in SeqsUpTo(ProjItems, MaxItems)}

ProjInit == Init /\ API_KEY = Str(<<"k", "1">>)

ProjNext ==
  \/ \E q \in SearchQueries : searchSubgraphs_call(1, q)
  \/ \E resp \in ProjResponses : searchSubgraphs_resume(1, resp)
  \/ deliver

ProjSpec == ProjInit /\ [][ProjNext]_vars

(***************************************************************************)
(* The tools under every key and every exception text over an alphabet     *)
(* that has a character of the redaction marker, its closing bracket, a    *)
(* character of the prefixes and one of neither.                           *)
(***************************************************************************)
Alphabet == {"k", "D", "]", " "}

SanKeys == {Str(k) : k \in SeqsUpTo(Alphabet, MaxKeyLen) \ {<< >>}}

SanResponses ==
  {Raise(exc, msg) : exc \in {"HTTPStatusError", "JSONDecodeError"},
                     msg \in SeqsUpTo(Alphabet, MaxMsgLen)}

SanInit ==
  /\ API_KEY \in SanKeys
  /\ _schema_cache = << >>
  /\ pc = [t \in Tasks |-> "idle"]
  /\ frame = [t \in Tasks |-> NoFrame]
  /\ httpCalls = [t \in Tasks |-> 0]
  /\ ret = NoRet

SanNext ==
  \/ \E id \in SubgraphIds, asText \in BOOLEAN :
       getSubgraphSchema_call(1, id, asText)
  \/ \E resp \in SanResponses : getSubgraphSchema_resume(1, resp)
  \/ \E id \in SubgraphIds, q \in Queries : querySubgraph_call(1, id, q)
  \/ \E resp \in SanResponses : querySubgraph_resume(1, resp)
  \/ \E q \in SearchQueries : searchSubgraphs_call(1, q)
  \/ \E resp \in SanResponses : searchSubgraphs_resume(1, resp)
  \/ deliver

SanSpec == SanInit /\ [][SanNext]_vars

(***************************************************************************)
(* What the claims speak of.                                               *)
(***************************************************************************)
Returned == ret.op # "none"

\* The form of a cache entry (None for no entry) holds a non-empty string
Populated(entry, form) ==
  /\ entry # None
  /\ entry.v[form] # None
  /\ entry.v[form].v # << >>

BothPopulated(entry) == Populated(entry, "text") /\ Populated(entry, "json")
TextOnly(entry) == Populated(entry, "text") /\ ~Populated(entry, "json")

\* The returned invocation got an answer of the gateway
Answered == Returned /\ ret.resp # NoResponse

\* A 200 answer without errors that carries a schema the normalizer accepts
ServesSchema(resp) ==
  /\ ~resp.raised
  /\ IsDict(resp.value)
  /\ ~Truthy(Get(resp.value, "errors"))
  /\ HasKey(resp.value, "data")
  /\ HasKey(resp.value.v["data"], "__schema")
  /\ ~json_to_graphql_schema(resp.value.v["data"].v["__schema"]).raised

ServedSchema(resp) == resp.value.v["data"].v["__schema"]

PrefixOf(op) ==
  CASE op = "getSubgraphSchema" -> ErrorFetchingSchema
    [] op = "querySubgraph" -> ErrorExecutingQuery
    [] op = "searchSubgraphs" -> ErrorSearchingSubgraphs

\* What the try block of the returned invocation evaluated to
Tried ==
  CASE ret.op = "getSubgraphSchema" ->
         getSubgraphSchemaTry(ret.subgraphId, ret.asText, ret.resp)
    [] ret.op = "querySubgraph" -> querySubgraphTry(ret.resp)
    [] ret.op = "searchSubgraphs" ->
         searchSubgraphsTry(ret.searchQuery, ret.resp)

\* A decoded body with a non-empty errors array of GraphQL errors
CarriesErrors(body) ==
  /\ HasKey(body, "errors")
  /\ IsList(body.v["errors"])
  /\ body.v["errors"].v # << >>
  /\ IsDict(body.v["errors"].v[1])
  /\ HasKey(body.v["errors"].v[1], "message")
       => IsStr(body.v["errors"].v[1].v["message"])

FirstMessage(body) ==
  IF HasKey(body.v["errors"].v[1], "message")
  THEN body.v["errors"].v[1].v["message"].v
  ELSE <<"Unknown error">>

Chars(s) == {s[i] : i \in DOMAIN s}

\* The exception the returned invocation caught quotes the key
KeyInException ==
  /\ Answered
  /\ ret.resp.raised
  /\ Truthy(API_KEY)
  /\ Contains(ret.resp.msg, API_KEY.v)

\* The returned text behind the prefix of the operation
AfterPrefix ==
  SubSeq(ret.out.value.v, Len(PrefixOf(ret.op)) + 1, Len(ret.out.value.v))

\* searchSubgraphs returned on a 200 answer whose data holds a list of items
SearchAnswered ==
  /\ Answered
  /\ ret.op = "searchSubgraphs"
  /\ ~ret.resp.raised
  /\ IsDict(ret.resp.value)
  /\ ~Truthy(Get(ret.resp.value, "errors"))
  /\ HasKey(ret.resp.value, "data")
  /\ HasKey(ret.resp.value.v["data"], "subgraphMetadataSearch")
  /\ IsList(ret.resp.value.v["data"].v["subgraphMetadataSearch"])

RawItems == ret.resp.value.v["data"].v["subgraphMetadataSearch"].v

\* An item has a subgraph, a current version, an id and a deployment
Survives(item) ==
  /\ Truthy(Get(item, "subgraph"))
  /\ Truthy(Get(item.v["subgraph"], "currentVersion"))
  /\ Truthy(Get(item.v["subgraph"], "id"))
  /\ Truthy(Get(item.v["subgraph"].v["currentVersion"], "subgraphDeployment"))

Survivors == SelectSeq(RawItems, Survives)

IsJsonList(x) == "arg" \in DOMAIN x /\ x.arg.ty = "list"

\* The sort key the specification gives a signalledTokens value: its number
\* if it is a number or a string of digits, zero otherwise
ClaimKey(tokens) ==
  IF tokens.ty = "num" THEN tokens.v
  ELSE IF /\ tokens.ty = "str" /\ tokens.v # << >>
          /\ \A i \in DOMAIN tokens.v : tokens.v[i] \in Digits
  THEN LiteralValue(tokens.v, 0)
  ELSE 0

KeyOfItem(item) == ClaimKey(Get(item.v["subgraph"], "signalledTokens"))
KeyOfEntry(entry) == ClaimKey(Get(entry, "signalledTokens"))

NamesOf(s) == [i \in DOMAIN s |-> s[i].v["displayName"]]

\* The keys the returned invocation targets with its cache assignments
Targets ==
  CASE ret.op = "getSubgraphSchema" -> {ret.subgraphId}
    [] ret.op = "querySubgraph" -> {}
    [] ret.op = "searchSubgraphs" ->
         IF SearchAnswered
         THEN {RawItems[i].v["subgraph"].v["id"] :
                 i \in {j \in DOMAIN RawItems : Survives(RawItems[j])}}
         ELSE {}

Writes == ret.out.writes

\* The value of the last assignment to k among the writes
LastWritten(k) ==
  Writes[CHOOSE i \in DOMAIN Writes :
           /\ Writes[i][1] = k
           /\ \A j \in DOMAIN Writes : Writes[j][1] = k => j <= i][2]

\* An entry is whole, and if it has a json form its text form is the
\* normalized text of the same schema
WholeEntry(e) ==
  /\ IsDict(e)
  /\ DOMAIN e.v = {"text", "json"}
  /\ IsStr(e.v["text"])
  /\ \/ e.v["json"] = None
     \/ /\ "arg" \in DOMAIN e.v["json"]
        /\ e.v["text"] = json_to_graphql_schema(e.v["json"].arg).value

(***************************************************************************)
(* The claims.                                                             *)
(***************************************************************************)

\* C1 (as stated): no return replaces a populated text or json form of the
\* cache entry of any subgraphId by an empty one: a form that was populated
\* before an invocation returned is populated after it.
C1_PopulatedFormsStay ==
  Returned =>
    \A k \in DOMAIN ret.cacheBefore : \A form \in {"text", "json"} :
      Populated(ret.cacheBefore[k], form)
        => k \in DOMAIN _schema_cache /\ Populated(_schema_cache[k], form)

\* C2: getSubgraphSchema on a subgraphId whose entry has both forms
\* populated issues no outbound call, whatever asText and the key are, and
\* returns the cached form that asText asks for, leaving the cache as it is.
C2_FullyCachedServedFromCache ==
  /\ \A t \in Tasks :
       (httpCalls[t] > 0 \/ pc[t] = "awaiting")
         /\ frame[t].op = "getSubgraphSchema"
         => ~BothPopulated(frame[t].atCall)
  /\ (Returned /\ ret.op = "getSubgraphSchema" /\ BothPopulated(ret.atCall))
       => /\ ret.calls = 0
          /\ ret.resp = NoResponse
          /\ ~ret.out.raised
          /\ ret.out.value =
               ret.atCall.v[IF ret.asText THEN "text" ELSE "json"]
          /\ _schema_cache = ret.cacheBefore

C2_Witness ==
  /\ Returned
  /\ ret.op = "getSubgraphSchema"
  /\ BothPopulated(ret.atCall)
  /\ ~ret.asText
  /\ ret.calls = 0

\* The case of C3: getSubgraphSchema(subgraphId, asText = false) was called
\* on an entry with only the text form populated, and has returned
TextOnlyJsonRequest ==
  /\ Returned
  /\ ret.op = "getSubgraphSchema"
  /\ ~ret.asText
  /\ TextOnly(ret.atCall)

C4_NoKeyNoOutboundCall ==
  (API_KEY = None \/ API_KEY = Str(<< >>)) =>
    /\ \A t \in Tasks : pc[t] = "idle" /\ httpCalls[t] = 0
    /\ DOMAIN _schema_cache = {}
    /\ Returned =>
         /\ ret.calls = 0
         /\ ret.resp = NoResponse
         /\ ret.out = With(Return(ApiKeyRequired), << >>)

C4_Witness ==
  /\ API_KEY = Str(<< >>)
  /\ Returned
  /\ ret.op = "getSubgraphSchema"

\* C5: whatever the gateway answers, each tool returns a string and raises
\* nothing, and when its try block raised, the string starts with the
\* prefix of the operation.
C5_ReturnsAString ==
  Returned =>
    /\ ~ret.out.raised
    /\ IsStr(ret.out.value)
    /\ (Answered /\ Tried.raised)
         => StartsWith(ret.out.value.v, PrefixOf(ret.op))

C5_Witness ==
  /\ Answered
  /\ ret.op = "searchSubgraphs"
  /\ ~ret.resp.raised
  /\ IsList(ret.resp.value)
  /\ StartsWith(ret.out.value.v, ErrorSearchingSubgraphs)

\* C6: on a 200 answer with a non-empty errors array each tool returns
\* "GraphQL error: " and the first error's message, or "Unknown error" when
\* it has none, also when the body carries data, and leaves the cache as it
\* is.
C6_ErrorsShortCircuit ==
  (Answered /\ ~ret.resp.raised /\ CarriesErrors(ret.resp.value)) =>
    /\ ret.out = With(Return(Str(<<"GraphQL error: ">>
                                   \o FirstMessage(ret.resp.value))), << >>)
    /\ _schema_cache = ret.cacheBefore

C6_Witness ==
  /\ Answered
  /\ ret.op = "searchSubgraphs"
  /\ ~ret.resp.raised
  /\ CarriesErrors(ret.resp.value)
  /\ Truthy(Get(ret.resp.value, "data"))

\* C7 (as stated): for every non-empty key and every exception text that
\* contains it, the returned string contains the redaction marker and does
\* not contain the key anywhere.
C7_KeyNeverReturned ==
  KeyInException =>
    /\ Contains(ret.out.value.v, REDACTED)
    /\ ~Contains(ret.out.value.v, API_KEY.v)

\* C7 (amended): for every non-empty key that has no character in common
\* with the redaction marker and every exception text that contains it, the
\* returned string is the prefix of the operation followed by a text that
\* contains the marker and does not contain the key; if the key has no
\* character in common with that prefix either, the whole returned string
\* does not contain the key.
C7_KeyRedacted ==
  (KeyInException /\ Chars(API_KEY.v) \cap Chars(REDACTED) = {}) =>
    /\ StartsWith(ret.out.value.v, PrefixOf(ret.op))
    /\ Contains(AfterPrefix, REDACTED)
    /\ ~Contains(AfterPrefix, API_KEY.v)
    /\ Chars(API_KEY.v) \cap Chars(PrefixOf(ret.op)) = {}
         => ~Contains(ret.out.value.v, API_KEY.v)

C7_Witness ==
  /\ KeyInException
  /\ API_KEY = Str(<<"k", "k">>)
  /\ ret.resp.msg = <<"k", "k", "k">>
  /\ ret.op = "searchSubgraphs"

\* C8 (as stated): searchSubgraphs returns the "No subgraphs found" message
\* on zero raw items, the "none have an active deployment" message when
\* there are raw items and none survives the filter, and a JSON list
\* exactly when an item survives; the list is never empty.
C8_EmptyOutcomes ==
  SearchAnswered =>
    /\ RawItems = << >> => ret.out.value = NoSubgraphsFound(ret.searchQuery)
    /\ (RawItems # << >> /\ Survivors = << >>)
         => ret.out.value = NoneDeployed(ret.searchQuery)
    /\ Survivors # << >> <=> IsJsonList(ret.out.value)
    /\ IsJsonList(ret.out.value) => ret.out.value.arg.v # << >>

\* The entries of list s whose key is k
EntriesWithKey(s, k) ==
  LET Is(e) == KeyOfEntry(e) = k IN SelectSeq(s, Is)

ItemsWithKey(s, k) ==
  LET Is(e) == KeyOfItem(e) = k IN SelectSeq(s, Is)

\* C9 (as stated): when an item survives, searchSubgraphs returns the list
\* of the surviving entries in descending order of signalledTokens, a
\* malformed or absent value counting as zero, entries of equal key in
\* their upstream order; no value aborts the search.
C9_SortedStable ==
  (SearchAnswered /\ Survivors # << >>) =>
    /\ IsJsonList(ret.out.value)
    /\ Len(ret.out.value.arg.v) = Len(Survivors)
    /\ \A i \in 1..(Len(ret.out.value.arg.v) - 1) :
         KeyOfEntry(ret.out.value.arg.v[i])
           >= KeyOfEntry(ret.out.value.arg.v[i + 1])
    /\ \A j \in DOMAIN Survivors :
         NamesOf(EntriesWithKey(ret.out.value.arg.v, KeyOfItem(Survivors[j])))
           = NamesOf(ItemsWithKey(Survivors, KeyOfItem(Survivors[j])))

\* C10: under every interleaving the cache holds whole entries only, an
\* invocation assigns only to the keys it targets, and when it returns
\* every key it assigned holds the value of its last assignment to that
\* key while every other key holds what it held before.
C10_WritesStayOnTheirKey ==
  /\ \A k \in DOMAIN _schema_cache : WholeEntry(_schema_cache[k])
  /\ Returned =>
       /\ \A i \in DOMAIN Writes : Writes[i][1] \in Targets
       /\ \A k \in DOMAIN _schema_cache \cup DOMAIN ret.cacheBefore :
            IF \E i \in DOMAIN Writes : Writes[i][1] = k
            THEN k \in DOMAIN _schema_cache
                 /\ _schema_cache[k] = LastWritten(k)
            ELSE CacheGet(_schema_cache, k) = CacheGet(ret.cacheBefore, k)

C10_Witness ==
  /\ Returned
  /\ ret.op = "getSubgraphSchema"
  /\ ret.subgraphId = S1
  /\ Writes # << >>
  /\ S2 \in DOMAIN ret.cacheBefore
  /\ \E t \in Tasks : pc[t] = "awaiting" /\ frame[t].op = "searchSubgraphs"

====
